---- MODULE Spec2Model ----
(***************************************************************************)
(* Fixed-budget best-arm identification for correlated bandits:            *)
(* uniform_sampling and successive_rejects of bandits/CorrelatedBandit,    *)
(* with the phase schedule sr_trials.                                      *)
(*                                                                         *)
(* Samples are real-valued random draws.  The model keeps, for every pair  *)
(* of arms, the NUMBER of joint samples held in arms_dict, and treats the  *)
(* estimates computed from them (mse) as a nondeterministic choice among   *)
(* the values the estimator can return for those sample counts.            *)
(***************************************************************************)
EXTENDS Integers, Sequences, FiniteSets, TLC

\* ---------------------------------------------------------------- bounds
MaxK == 4
MaxBudget == 20
MaxVal == 1
MaxSchedK == 5
MaxSchedBudget == 40

\* ------------------------------------------------------------- constants
\* The value of an estimate computed from a single sample: np.corrcoef of
\* one observation is nan, and nan propagates through the sum.
NaN == -1
\* A Python name that is not bound yet.
Unset == -2

VARIABLES
    policy,     \* "sr", "uniform": which function is called
    num_arms,   \* bandit.num_arms
    trials,     \* the total budget passed in
    pc,         \* position in the function body
    B,          \* active arms
    A,          \* active pairs
    ns,         \* [0] + sr_trials(trials, num_arms)
    ts,         \* per-phase increments
    mse_ests,   \* the returned vector of estimates
    arms_dict,  \* pair -> number of samples held
    k,          \* number of completed phases (the loop index of enumerate)
    mse_vals,   \* the estimates computed in the current phase
    reject,     \* the arm rejected in the current phase
    val,        \* its estimate
    min_mse,    \* min estimate over B in the current phase
    arm,        \* the returned arm
    err,        \* the exception that ended the call, "" if none
    drawn,      \* history: joint pair draws requested so far
    rejected    \* history: the rejected arms, in order

vars == <<policy, num_arms, trials, pc, B, A, ns, ts, mse_ests, arms_dict, k,
          mse_vals, reject, val, min_mse, arm, err, drawn, rejected>>

\* ---------------------------------------------------------------- helpers
Arms(K) == 0 .. (K - 1)

Pairs(K) == {p \in Arms(K) \X Arms(K) : p[1] < p[2]}

zeros(K) == [i \in Arms(K) |-> 0]

EmptyDict == [p \in {} |-> 0]

\* IEEE comparisons: every comparison with nan is false.
GT(x, y) == x # NaN /\ y # NaN /\ x > y

LT(x, y) == x # NaN /\ y # NaN /\ x < y

Vals == 0 .. MaxVal

\* ------------------------------------------------------------- sr_trials
K2(K) == (K * (K - 1)) \div 2

FracAdd(a, b) == <<a[1] * b[2] + b[1] * a[2], a[2] * b[2]>>

RECURSIVE CkSum(_, _)
\* sum(j/(K-j) for j in range(j, K-1)) as an exact fraction <<num, den>>
CkSum(K, j) ==
    IF j > K - 2 THEN <<0, 1>>
    ELSE FracAdd(<<j, K - j>>, CkSum(K, j + 1))

ck(K) == FracAdd(<<K - 1, 2>>, CkSum(K, 1))

\* ck and ck*(K+1-k) are IEEE doubles.  FloatErrSign(K, k) is the sign of
\* (the double ck*(K+1-k) as Python computes it) - (its exact value):
\* the rounding decides the floor division only when the exact quotient is
\* an integer.
FloatErrSign(K, kk) ==
    CASE K = 2 -> 0
      [] K = 3 -> 0
      [] K = 4 -> <<-1, 0, -1>>[kk]
      [] K = 5 -> -1
      [] K = 6 -> <<1, 0, 1, 1, 1>>[kk]
      [] K = 7 -> <<1, 1, 0, 1, 1, 1>>[kk]
      [] K = 8 -> 1
      [] OTHER -> 0

\* -(-(n-K2) // (ck*(K+1-k)))
CeilDivFloat(n, K, kk) ==
    LET c    == ck(K)
        num  == (n - K2(K)) * c[2]
        d    == c[1] * (K + 1 - kk)
        fl   == (0 - num) \div d
        s    == FloatErrSign(K, kk)
        down == /\ num % d = 0
                /\ \/ num > 0 /\ s < 0
                   \/ num < 0 /\ s > 0
    IN  0 - (IF down THEN fl - 1 ELSE fl)

\* variant: the K(K-1)/2 reserve is not subtracted from the budget
sr_trials_no_K2(n, K) == [kk \in 1 .. (K - 1) |-> CeilDivFloat(n + K2(K), K, kk)]

\* variant: range(1, K-1), one phase fewer
sr_trials_short(n, K) == [kk \in 1 .. (K - 2) |-> CeilDivFloat(n, K, kk)]

RECURSIVE SpecCkSum(_, _)
SpecCkSum(K, j) ==
    IF j > K - 2 THEN <<0, 1>>
    ELSE FracAdd(<<1, K - j>>, SpecCkSum(K, j + 1))

\* the schedule with the constant (K-1)/2 + sum 1/(K-j), in exact arithmetic
sr_trials_unit_sum(n, K) ==
    LET c == FracAdd(<<K - 1, 2>>, SpecCkSum(K, 1))
    IN  [kk \in 1 .. (K - 1) |->
            0 - ((0 - (n - K2(K)) * c[2]) \div (c[1] * (K + 1 - kk)))]

sr_trials(n, K) == [kk \in 1 .. (K - 1) |-> CeilDivFloat(n, K, kk)]

\* np.subtract(ns[1:], ns[:-1])
subtract(s) == [i \in 1 .. (Len(s) - 1) |-> s[i + 1] - s[i]]

\* ----------------------------------------------------------- sample_arms
\* variant: an empty draw is returned as an empty batch
sample_arms_any_size(size) == size >= 0

\* sample_arms(arms, size) returns normally iff size >= 1: rvs() rejects a
\* negative size, and np.reshape(multi_sample, (0, -1)) of an empty draw
\* cannot infer the -1 dimension; both raise ValueError.
sample_arms(size) == size >= 1

\* variant: the new batch replaces the samples held
concatenate_reset(cnt, t) == t

\* np.concatenate((arms_dict[pair], new batch)): the number of rows held
concatenate(cnt, t) == cnt + t

\* ------------------------------------------------------------------- mse
PairsOf(i, dict) == {p \in DOMAIN dict : p[1] = i \/ p[2] = i}

\* The values mse(arms_dict)[i] can take: 0 with no pair sampled (the
\* zero-initialised evars/ecorrs), nan when a pair holds one sample, a
\* finite non-negative value otherwise.
ArmOutcomes(i, dict) ==
    IF PairsOf(i, dict) = {} THEN {0}
    ELSE IF \E p \in PairsOf(i, dict) : dict[p] = 1 THEN {NaN}
    ELSE Vals

mse(dict, K) ==
    {v \in [Arms(K) -> Vals \cup {NaN}] : \A i \in Arms(K) : v[i] \in ArmOutcomes(i, dict)}

\* ---------------------------------------------- max / min / argmin scans
RECURSIVE MaxScan(_, _, _, _)
\* max(((i,v) for (i,v) in enumerate(vals) if i in Bset), key=lambda x: x[1])
\* keeps the first element and replaces it only by a strictly greater one.
MaxScan(vals, Bset, i, best) ==
    IF i \notin DOMAIN vals THEN best
    ELSE IF i \in Bset /\ (best = Unset \/ GT(vals[i], vals[best]))
         THEN MaxScan(vals, Bset, i + 1, i)
         ELSE MaxScan(vals, Bset, i + 1, best)

RECURSIVE MaxScanLast(_, _, _, _)
\* variant: a later equal element replaces the current maximum
MaxScanLast(vals, Bset, i, best) ==
    IF i \notin DOMAIN vals THEN best
    ELSE IF i \in Bset /\ (best = Unset \/ ~LT(vals[i], vals[best]))
         THEN MaxScanLast(vals, Bset, i + 1, i)
         ELSE MaxScanLast(vals, Bset, i + 1, best)

RejectLastMax(vals, Bset) == MaxScanLast(vals, Bset, 0, Unset)

\* variant: the 'if i in B' filter is missing
RejectAnyArm(vals, Bset) == MaxScan(vals, DOMAIN vals, 0, Unset)

RECURSIVE MinScan(_, _, _, _)
\* min(v for (i,v) in enumerate(vals) if i in Bset)
MinScan(vals, Bset, i, best) ==
    IF i \notin DOMAIN vals THEN best
    ELSE IF i \in Bset /\ (best = Unset \/ LT(vals[i], vals[best]))
         THEN MinScan(vals, Bset, i + 1, i)
         ELSE MinScan(vals, Bset, i + 1, best)

RejectArm(vals, Bset) == MaxScan(vals, Bset, 0, Unset)

MinOver(vals, Bset) == vals[MinScan(vals, Bset, 0, Unset)]

\* np.argmin: the first nan if there is one, else the first minimum
argmin(vals) ==
    IF \E i \in DOMAIN vals : vals[i] = NaN
    THEN CHOOSE i \in DOMAIN vals :
            vals[i] = NaN /\ \A j \in DOMAIN vals : vals[j] = NaN => i <= j
    ELSE MinScan(vals, DOMAIN vals, 0, Unset)

\* variant: the rejected arm stays in B
RemoveNothing(Bset, a) == Bset

\* B.remove(reject)
Remove(Bset, a) == Bset \ {a}

\* variant: mse_ests = mse_vals, every entry overwritten
record_all(ests, vals, r) == vals

\* mse_ests[reject] = val
record_estimate(ests, vals, r) == [ests EXCEPT ![r] = vals[r]]

\* {p for p in ... if p[0] in B or p[1] in B}
Prune(S, Bset) == {p \in S : p[1] \in Bset \/ p[2] \in Bset}

\* ------------------------------------------------------------------ Init
Init ==
    /\ policy \in {"sr", "uniform"}
    /\ num_arms \in 2 .. MaxK
    /\ trials \in 0 .. MaxBudget
    /\ pc = "start"
    /\ B = {}
    /\ A = {}
    /\ ns = <<>>
    /\ ts = <<>>
    /\ mse_ests = <<>>
    /\ arms_dict = EmptyDict
    /\ k = 0
    /\ mse_vals = <<>>
    /\ reject = Unset
    /\ val = Unset
    /\ min_mse = Unset
    /\ arm = Unset
    /\ err = ""
    /\ drawn = 0
    /\ rejected = <<>>

\* --------------------------------------------------- successive_rejects
SRSetup ==
    /\ pc = "start"
    /\ policy = "sr"
    /\ B' = Arms(num_arms)
    /\ A' = Pairs(num_arms)
    /\ ns' = <<0>> \o sr_trials(trials, num_arms)
    /\ ts' = subtract(ns')
    /\ mse_ests' = zeros(num_arms)
    /\ arms_dict' = EmptyDict
    /\ k' = 0
    /\ pc' = "loop"
    /\ UNCHANGED <<policy, num_arms, trials, mse_vals, reject, val, min_mse,
                   arm, err, drawn, rejected>>

\* for pair in A: ... the sampling of one phase
SRSample ==
    /\ pc = "loop"
    /\ policy = "sr"
    /\ k < Len(ts)
    /\ LET t == ts[k + 1] IN
         IF t = 0 \/ A = {}
         THEN /\ pc' = "estimate"
              /\ UNCHANGED <<arms_dict, drawn, err>>
         ELSE IF ~sample_arms(t)
         THEN /\ pc' = "error"
              /\ err' = "ValueError"
              /\ UNCHANGED <<arms_dict, drawn>>
         ELSE /\ arms_dict' =
                    [p \in A \cup DOMAIN arms_dict |->
                        IF p \notin A THEN arms_dict[p]
                        ELSE IF p \in DOMAIN arms_dict
                             THEN concatenate(arms_dict[p], t)
                             ELSE t]
              /\ drawn' = drawn + t * Cardinality(A)
              /\ pc' = "estimate"
              /\ UNCHANGED err
    /\ UNCHANGED <<policy, num_arms, trials, B, A, ns, ts, mse_ests, k,
                   mse_vals, reject, val, min_mse, arm, rejected>>

\* mse_vals = mse(arms_dict, num_arms).  With no new sample in this phase
\* the estimates are recomputed from the samples of the phase before: an
\* arm keeps its estimate unless one of its pairs was pruned, and then the
\* estimate loses a non-negative term.
SREstimate ==
    /\ pc = "estimate"
    /\ policy = "sr"
    /\ \E v \in mse(arms_dict, num_arms) :
         /\ (ts[k + 1] = 0 /\ k > 0) =>
               \A i \in Arms(num_arms) :
                  IF i \in B \/ num_arms - Cardinality(B) < 2
                  THEN v[i] = mse_vals[i]
                  ELSE v[i] = NaN \/ mse_vals[i] = NaN \/ v[i] <= mse_vals[i]
         /\ mse_vals' = v
    /\ pc' = "reject"
    /\ UNCHANGED <<policy, num_arms, trials, B, A, ns, ts, mse_ests, arms_dict,
                   k, reject, val, min_mse, arm, err, drawn, rejected>>

\* reject, val = max(...) ... arms_dict = {...}
SREliminate ==
    /\ pc = "reject"
    /\ policy = "sr"
    /\ LET r == RejectArm(mse_vals, B) IN
         IF r = Unset
         THEN \* max() of an empty sequence
              /\ pc' = "error"
              /\ err' = "ValueError"
              /\ UNCHANGED <<reject, val, mse_ests, min_mse, B, A, arms_dict,
                             k, rejected>>
         ELSE IF r \notin B
         THEN \* B.remove of a missing element
              /\ reject' = r
              /\ val' = mse_vals[r]
              /\ mse_ests' = record_estimate(mse_ests, mse_vals, r)
              /\ min_mse' = MinOver(mse_vals, B)
              /\ pc' = "error"
              /\ err' = "KeyError"
              /\ UNCHANGED <<B, A, arms_dict, k, rejected>>
         ELSE /\ reject' = r
              /\ val' = mse_vals[r]
              /\ mse_ests' = record_estimate(mse_ests, mse_vals, r)
              /\ min_mse' = MinOver(mse_vals, B)
              /\ B' = Remove(B, r)
              /\ A' = Prune(A, B')
              /\ arms_dict' = [p \in Prune(DOMAIN arms_dict, B') |-> arms_dict[p]]
              /\ k' = k + 1
              /\ rejected' = Append(rejected, r)
              /\ pc' = "loop"
              /\ UNCHANGED err
    /\ UNCHANGED <<policy, num_arms, trials, ns, ts, mse_vals, arm, drawn>>

\* arm = B.pop(); mse_ests[arm] = min_mse; return arm, mse_ests
SRFinish ==
    /\ pc = "loop"
    /\ policy = "sr"
    /\ k = Len(ts)
    /\ IF B = {}
       THEN /\ pc' = "error"
            /\ err' = "KeyError"
            /\ UNCHANGED <<B, arm, mse_ests>>
       ELSE \E a \in B :
            /\ B' = B \ {a}
            /\ arm' = a
            /\ IF min_mse = Unset
               THEN /\ pc' = "error"
                    /\ err' = "NameError"
                    /\ UNCHANGED mse_ests
               ELSE /\ mse_ests' = [mse_ests EXCEPT ![a] = min_mse]
                    /\ pc' = "done"
                    /\ UNCHANGED err
    /\ UNCHANGED <<policy, num_arms, trials, A, ns, ts, arms_dict, k, mse_vals,
                   reject, val, min_mse, drawn, rejected>>

\* ------------------------------------------------------ uniform_sampling
uniform_n(T, K) == (2 * T) \div (K * (K - 1))

UniformSample ==
    /\ pc = "start"
    /\ policy = "uniform"
    /\ LET n == uniform_n(trials, num_arms) IN
         IF ~sample_arms(n)
         THEN /\ pc' = "error"
              /\ err' = "ValueError"
              /\ UNCHANGED <<arms_dict, drawn>>
         ELSE /\ arms_dict' = [p \in Pairs(num_arms) |-> n]
              /\ drawn' = n * Cardinality(Pairs(num_arms))
              /\ pc' = "uestimate"
              /\ UNCHANGED err
    /\ UNCHANGED <<policy, num_arms, trials, B, A, ns, ts, mse_ests, k,
                   mse_vals, reject, val, min_mse, arm, rejected>>

UniformEstimate ==
    /\ pc = "uestimate"
    /\ policy = "uniform"
    /\ \E v \in mse(arms_dict, num_arms) :
         /\ mse_vals' = v
         /\ mse_ests' = v
         /\ arm' = argmin(v)
    /\ pc' = "done"
    /\ UNCHANGED <<policy, num_arms, trials, B, A, ns, ts, arms_dict, k,
                   reject, val, min_mse, err, drawn, rejected>>

Next ==
    \/ SRSetup
    \/ SRSample
    \/ SREstimate
    \/ SREliminate
    \/ SRFinish
    \/ UniformSample
    \/ UniformEstimate

Spec == Init /\ [][Next]_vars

\* The call is one sequential computation: it keeps taking steps.
FairSpec == Spec /\ WF_vars(Next)

\* --------------------------------------- sr_trials as a pure function
SchedInit ==
    /\ policy = "sr"
    /\ num_arms \in 2 .. MaxSchedK
    /\ trials \in 0 .. MaxSchedBudget
    /\ pc = "sched"
    /\ B = {}
    /\ A = {}
    /\ ns = <<>>
    /\ ts = <<>>
    /\ mse_ests = <<>>
    /\ arms_dict = EmptyDict
    /\ k = 0
    /\ mse_vals = <<>>
    /\ reject = Unset
    /\ val = Unset
    /\ min_mse = Unset
    /\ arm = Unset
    /\ err = ""
    /\ drawn = 0
    /\ rejected = <<>>

\* ns = [0] + sr_trials(trials, num_arms); ts = np.subtract(ns[1:], ns[:-1])
SrTrialsCall ==
    /\ pc = "sched"
    /\ ns' = <<0>> \o sr_trials(trials, num_arms)
    /\ ts' = subtract(ns')
    /\ pc' = "scheduled"
    /\ UNCHANGED <<policy, num_arms, trials, B, A, mse_ests, arms_dict, k,
                   mse_vals, reject, val, min_mse, arm, err, drawn, rejected>>

SchedNext == SrTrialsCall

SchedSpec == SchedInit /\ [][SchedNext]_vars

\* ------------------------------------------------------------ properties
ValidBudget == trials >= K2(num_arms)

Range(s) == {s[i] : i \in DOMAIN s}

RECURSIVE SumTo(_, _)
SumTo(s, n) == IF n = 0 THEN 0 ELSE s[n] + SumTo(s, n - 1)

\* the arms of Bset whose estimate no arm of Bset exceeds
TiedMax(vals, Bset) == {i \in Bset : \A j \in Bset : ~GT(vals[j], vals[i])}

\* the number of pairs with an endpoint among the arms active in phase ph
ActivePairs(K, ph) == K2(K) - ((ph - 1) * (ph - 2)) \div 2

RECURSIVE DrawsUpTo(_, _, _)
DrawsUpTo(t, K, ph) ==
    IF ph = 0 THEN 0 ELSE t[ph] * ActivePairs(K, ph) + DrawsUpTo(t, K, ph - 1)

\* C1: with K >= 2 arms and a budget of at least K(K-1)/2, a run of
\* successive_rejects raises nothing, leaves the phase loop with exactly one
\* arm in B, returns that arm (an index in [0, K), the one arm never
\* rejected), and always reaches its return.
C1_StateInv ==
    (policy = "sr" /\ ValidBudget) =>
        /\ pc # "error"
        /\ (pc = "loop" /\ k = Len(ts)) => Cardinality(B) = 1
        /\ pc = "done" =>
              /\ arm \in Arms(num_arms)
              /\ Arms(num_arms) \ Range(rejected) = {arm}
              /\ B = {}

C1_TerminatesWithOneArm ==
    /\ [](C1_StateInv)
    /\ (policy = "sr" /\ ValidBudget) ~> (pc = "done")

C1_Witness ==
    /\ policy = "sr"
    /\ pc = "done"
    /\ num_arms >= 3
    /\ trials > K2(num_arms)
    /\ arm # num_arms - 1

\* C2: successive_rejects with a budget below K(K-1)/2 fails before doing
\* anything: it draws no sample, eliminates no arm and returns no result.
C2_InvalidBudgetRejected ==
    (policy = "sr" /\ ~ValidBudget) =>
        /\ drawn = 0
        /\ rejected = <<>>
        /\ pc # "done"

\* C3: uniform_sampling with budget 0 or any budget below K(K-1)/2 ends in
\* an exception: it holds no sample, computes no estimate and returns no arm.
C3_UniformRejectsSmallBudget ==
    (policy = "uniform" /\ ~ValidBudget) =>
        /\ pc \in {"start", "error"}
        /\ pc = "error" => err = "ValueError"
        /\ arm = Unset
        /\ mse_vals = <<>>
        /\ DOMAIN arms_dict = {}
        /\ drawn = 0

C3_Witness ==
    /\ policy = "uniform"
    /\ ~ValidBudget
    /\ trials > 0
    /\ pc = "error"

\* C4 as stated: for a budget of at least K(K-1)/2 the schedule equals
\* n_k = ceil((budget - K(K-1)/2) / (C * (K+1-k))) with
\* C = (K-1)/2 + sum over j = 1..K-2 of 1/(K-j).
C4_UnitSumClosedForm ==
    (pc = "scheduled" /\ ValidBudget) =>
        \A kk \in 1 .. (num_arms - 1) :
            ns[kk + 1] = sr_trials_unit_sum(trials, num_arms)[kk]

\* C4 amended: the schedule is the ceiling of
\* (budget - K(K-1)/2) / (C * (K+1-k)) with C = (K-1)/2 + sum over
\* j = 1..K-2 of j/(K-j), computed in floating point: n_k is the exact
\* ceiling, or one more than it where the exact quotient is an integer.
C4_WeightedSumClosedForm ==
    (pc = "scheduled" /\ ValidBudget) =>
        /\ Len(ns) = num_arms
        /\ ns[1] = 0
        /\ \A kk \in 1 .. (num_arms - 1) :
            LET n == ns[kk + 1]
                c == ck(num_arms)
                D == (trials - K2(num_arms)) * c[2]
                w == c[1] * (num_arms + 1 - kk)
            IN  \/ (n - 1) * w < D /\ D <= n * w
                \/ D > 0 /\ D = (n - 1) * w

C4_Witness ==
    /\ pc = "scheduled"
    /\ ValidBudget
    /\ ns # <<0>> \o sr_trials_unit_sum(trials, num_arms)
    /\ \E kk \in 1 .. (num_arms - 1) :
          LET c == ck(num_arms)
              D == (trials - K2(num_arms)) * c[2]
              w == c[1] * (num_arms + 1 - kk)
          IN  D > 0 /\ D = (ns[kk + 1] - 1) * w

\* C5: B starts as all K arms and loses exactly one arm, never one already
\* rejected, in every phase: after k phases it is the K-k arms not yet
\* rejected, and a run that returns has performed exactly K-1 phases.
C5_OneArmPerPhase ==
    (policy = "sr" /\ pc # "start") =>
        /\ Len(rejected) = k
        /\ k <= num_arms - 1
        /\ \A i, j \in 1 .. Len(rejected) : rejected[i] = rejected[j] => i = j
        /\ pc # "done" =>
              /\ B = Arms(num_arms) \ Range(rejected)
              /\ Cardinality(B) = num_arms - k
        /\ pc = "done" => k = num_arms - 1

C5_Witness ==
    /\ policy = "sr"
    /\ pc = "done"
    /\ num_arms = 4
    /\ k = 3
    /\ rejected # <<0, 1, 2>>

\* C6: the arm removed in a phase was in B, and no arm of B had a strictly
\* larger estimate in that phase; the value recorded is that estimate.
C6_RejectsWorstActiveArm ==
    /\ err # "KeyError"
    /\ (policy = "sr" /\ pc = "loop" /\ k >= 1) =>
          /\ reject = rejected[k]
          /\ reject \notin B
          /\ reject \notin Range(SubSeq(rejected, 1, k - 1))
          /\ \A i \in B \cup {reject} : ~GT(mse_vals[i], mse_vals[reject])
          /\ val = mse_vals[reject]

C6_Witness ==
    /\ policy = "sr"
    /\ pc = "loop"
    /\ k >= 1
    /\ reject # 0
    /\ \E i \in B : GT(mse_vals[reject], mse_vals[i])

\* C7: when the estimates of phase k are computed, every pair with an
\* endpoint in B holds exactly n_k = t_1 + ... + t_k samples (no entry when
\* that is 0); after the elimination no pair with both endpoints eliminated
\* is left in A or in arms_dict.
C7_CumulativeAndPruned ==
    policy = "sr" =>
        /\ pc = "reject" =>
              \A p \in Pairs(num_arms) :
                 (p[1] \in B \/ p[2] \in B) =>
                    /\ ns[k + 2] = SumTo(ts, k + 1)
                    /\ IF ns[k + 2] = 0
                       THEN p \notin DOMAIN arms_dict
                       ELSE p \in DOMAIN arms_dict /\ arms_dict[p] = ns[k + 2]
        /\ pc = "loop" =>
              \A p \in Pairs(num_arms) :
                 (p[1] \notin B /\ p[2] \notin B) =>
                    p \notin A /\ p \notin DOMAIN arms_dict

C7_Witness ==
    /\ policy = "sr"
    /\ pc = "reject"
    /\ k >= 1
    /\ ts[k + 1] > 0
    /\ ns[k + 1] > 0

\* C8: once an arm is rejected its entry of mse_ests is its estimate of
\* that phase and no later step changes it; the final step writes only the
\* survivor's entry, the minimum estimate among the two arms of the last
\* phase.
C8_StatePart ==
    policy = "sr" =>
        /\ (pc = "loop" /\ k >= 1) => mse_ests[reject] = mse_vals[reject]
        /\ pc = "done" =>
              /\ mse_ests[arm] \in {mse_vals[reject], mse_vals[arm]}
              /\ \A i \in {reject, arm} : ~LT(mse_vals[i], mse_ests[arm])

C8_StepPart ==
    (policy = "sr" /\ pc # "start") =>
        \A a \in Range(rejected) : mse_ests'[a] = mse_ests[a]

C8_FrozenEstimates == [](C8_StatePart) /\ [][C8_StepPart]_vars

C8_Witness ==
    /\ policy = "sr"
    /\ pc = "done"
    /\ \E a \in Range(rejected) :
          /\ mse_ests[a] # NaN
          /\ mse_vals[a] # NaN
          /\ mse_ests[a] # mse_vals[a]

\* C9 as stated: when two or more active arms tie for the maximum estimate
\* the estimates do not determine which is eliminated: the elimination step
\* can remove either of two different tied arms.
C9_TieLeftToSetOrder ==
    (policy = "sr" /\ pc = "reject" /\ Cardinality(TiedMax(mse_vals, B)) >= 2) =>
        \E a1, a2 \in TiedMax(mse_vals, B) :
            /\ a1 # a2
            /\ ENABLED (SREliminate /\ reject' = a1)
            /\ ENABLED (SREliminate /\ reject' = a2)

\* C9 amended: the candidates are scanned in ascending arm index
\* (enumerate(mse_vals)) and the first maximum is kept, so among the arms
\* tied for the maximum the one with the lowest index is eliminated: the
\* estimates and B determine the eliminated arm.
C9_LowestIndexTieBreak ==
    (policy = "sr" /\ pc = "loop" /\ k >= 1) =>
        /\ reject \in TiedMax(mse_vals, B \cup {reject})
        /\ \A j \in TiedMax(mse_vals, B \cup {reject}) : reject <= j

C9_Witness ==
    /\ policy = "sr"
    /\ pc = "loop"
    /\ k >= 1
    /\ Cardinality(TiedMax(mse_vals, B \cup {reject})) >= 2
    /\ mse_vals[reject] > 0

\* C10: with a budget T of at least K(K-1)/2 neither policy requests more
\* than T joint pair draws: successive_rejects requests the sum over its
\* phases of t_k times the pairs active in phase k, uniform_sampling exactly
\* floor(2T / (K(K-1))) for each of the K(K-1)/2 pairs.
C10_BudgetRespected ==
    ValidBudget =>
        /\ drawn <= trials
        /\ (policy = "sr" /\ pc \in {"loop", "done"}) =>
              drawn = DrawsUpTo(ts, num_arms, k)
        /\ (policy = "uniform" /\ pc \in {"uestimate", "done"}) =>
              /\ DOMAIN arms_dict = Pairs(num_arms)
              /\ \A p \in Pairs(num_arms) :
                    arms_dict[p] = (2 * trials) \div (num_arms * (num_arms - 1))
              /\ drawn = K2(num_arms) * ((2 * trials) \div (num_arms * (num_arms - 1)))

C10_Witness ==
    /\ policy = "sr"
    /\ pc = "done"
    /\ num_arms = 4
    /\ drawn > K2(num_arms)
    /\ drawn = trials - 1

====
